---- MODULE Spec2Model ----
(***************************************************************************)
(* The products CRUD service: five route handlers over one document        *)
(* collection (src/src/api/products/index.js) followed by the error        *)
(* handler chain mounted in src/src/server.js.                             *)
(*                                                                         *)
(* Encoding.  A path parameter :id is an integer: k >= 1 is the k-th       *)
(* ObjectId the collection generated, 0 is a well-formed ObjectId that is  *)
(* never generated (the tests' "6436b60c28268a437baf0b7e"), a negative     *)
(* number is a string that does not cast to an ObjectId.  A request body   *)
(* is a record over a subset of name/description/price.  A message is a    *)
(* sequence of strings, so that the template literal of the 404 message    *)
(* is computed from the id it is given.  Each handler performs exactly one *)
(* awaited collection call, so requests are taken one at a time.           *)
(***************************************************************************)
EXTENDS Integers, Sequences, FiniteSets, TLC

VARIABLES
    store,      \* the products collection: documents in insertion order
    nextId,     \* the collection's ObjectId generator
    req,        \* the request being served, NoRequest between requests
    responses,  \* what res.send() was called with for req, in order
    err,        \* the error passed to next(), NoError when none
    stage,      \* 0: no error in flight; k: ErrorHandlers[k] runs next
    assigned,   \* history: every _id ever given to a document
    deleted,    \* history: ids whose DELETE was answered 204
    before      \* history: store, assigned and deleted as req found them

vars == <<store, nextId, req, responses, err, stage, assigned, deleted, before>>

----------------------------------------------------------------------------
(* Bounds and inputs *)

MaxProducts == 2

NameVals == {"iPhone SE", "Kelek", ""}
DescriptionVals == {"Good phone", ""}
PriceVals == {9001, 5000, -1}

NeverAssignedId == 0
MalformedId == -1
Ids == MalformedId .. MaxProducts

EmptyBody == <<>>

Payloads ==
    { (n @@ d) @@ p :
        n \in {EmptyBody} \cup {[name |-> v] : v \in NameVals},
        d \in {EmptyBody} \cup {[description |-> v] : v \in DescriptionVals},
        p \in {EmptyBody} \cup {[price |-> v] : v \in PriceVals} }

NoParams == <<>>

Requests ==
    [route : {"POST /"}, params : {NoParams}, body : Payloads, storeOk : BOOLEAN]
    \cup [route : {"GET /"}, params : {NoParams}, body : {EmptyBody}, storeOk : BOOLEAN]
    \cup [route : {"GET /:id", "DELETE /:id"}, params : {[id |-> i] : i \in Ids},
          body : {EmptyBody}, storeOk : BOOLEAN]
    \cup [route : {"PUT /:id"}, params : {[id |-> i] : i \in Ids},
          body : Payloads, storeOk : BOOLEAN]

NoRequest == [route |-> "-", params |-> NoParams, body |-> EmptyBody, storeOk |-> TRUE]

----------------------------------------------------------------------------
(* Errors *)

NoError == [name |-> "-", status |-> 0, message |-> <<>>]

\* createHttpError(status, message)
createHttpError(status, message) ==
    [name |-> "NotFoundError", status |-> status, message |-> message]

\* `Product with id ${req.params.id} not found!`
NotFoundMessage(id) == <<"Product with id ", ToString(id), " not found!">>

\* what the mapper throws; none of them carries a status
ValidationError == [name |-> "ValidationError", status |-> 0,
                    message |-> <<"products validation failed">>]
CastError(id) == [name |-> "CastError", status |-> 0,
                  message |-> <<"Cast to ObjectId failed for value ", ToString(id)>>]
StoreError == [name |-> "MongoNetworkError", status |-> 0,
               message |-> <<"connection closed">>]

----------------------------------------------------------------------------
(* The Product schema and the collection calls the handlers make *)

Fields == {"name", "description", "price"}

\* name, description: required non-empty text; price: required non-negative number
ValidField(f, v) == IF f = "price" THEN v >= 0 ELSE v # ""

InvalidPaths(body) == {f \in DOMAIN body : ~ValidField(f, body[f])}
MissingPaths(body) == Fields \ DOMAIN body

IsObjectId(id) == id >= 0

StoredIds(st) == {st[i]._id : i \in 1..Len(st)}
IndexOf(st, id) == CHOOSE i \in 1..Len(st) : st[i]._id = id

\* the result of a collection call: a thrown error, or a document (found) or null
Thrown(e, st) == [error |-> e, found |-> FALSE, doc |-> <<>>, store |-> st]
Null(st) == [error |-> NoError, found |-> FALSE, doc |-> <<>>, store |-> st]
Found(d, st) == [error |-> NoError, found |-> TRUE, doc |-> d, store |-> st]

\* mutant: the generator hands out the same _id again
ProductsModel_sameId(nid, body) == [doc |-> [_id |-> nid] @@ body, nextId |-> nid]

\* new ProductsModel(req.body): the document gets its _id on construction
ProductsModel(nid, body) == [doc |-> [_id |-> nid] @@ body, nextId |-> nid + 1]

\* mutant: save({ validateBeforeSave: false })
save_unvalidated(st, doc, storeOk) ==
    IF ~storeOk THEN Thrown(StoreError, st) ELSE Found(doc, Append(st, doc))

\* newProduct.save(): validate against the schema, then insert
save(st, doc, storeOk) ==
    IF MissingPaths(doc) \cup InvalidPaths([f \in DOMAIN doc \ {"_id"} |-> doc[f]]) # {}
    THEN Thrown(ValidationError, st)
    ELSE IF ~storeOk THEN Thrown(StoreError, st)
    ELSE Found(doc, Append(st, doc))

\* ProductsModel.find()
find(st, storeOk) ==
    IF ~storeOk THEN Thrown(StoreError, st) ELSE Found([products |-> st], st)

\* ProductsModel.findById(id): cast the id, then look it up
findById(st, id, storeOk) ==
    IF ~IsObjectId(id) THEN Thrown(CastError(id), st)
    ELSE IF ~storeOk THEN Thrown(StoreError, st)
    ELSE IF id \notin StoredIds(st) THEN Null(st)
    ELSE Found(st[IndexOf(st, id)], st)

\* ProductsModel.findByIdAndUpdate(id, update, options): cast the id, run the
\* update validators on the paths of the update when asked to, then set those
\* paths on the matching document; the result is the document after the update
\* with new: true and the document as it was otherwise
findByIdAndUpdate(st, id, update, options, storeOk) ==
    IF ~IsObjectId(id) THEN Thrown(CastError(id), st)
    ELSE IF options.runValidators /\ InvalidPaths(update) # {}
    THEN Thrown(ValidationError, st)
    ELSE IF ~storeOk THEN Thrown(StoreError, st)
    ELSE IF id \notin StoredIds(st) THEN Null(st)
    ELSE LET i == IndexOf(st, id)
             old == st[i]
             upd == update @@ old
         IN  Found(IF options.new THEN upd ELSE old, [st EXCEPT ![i] = upd])

----------------------------------------------------------------------------
(* The route handlers: what each does to the collection, what it sends and  *)
(* what it passes to next()                                                 *)

Response(status, body) == [status |-> status, body |-> body]
NoContent == [empty |-> TRUE]

Send(st, status, body) == [store |-> st, sent |-> <<Response(status, body)>>, err |-> NoError]
Forward(st, e) == [store |-> st, sent |-> <<>>, err |-> e]

\* mutant: the success answer is sent without .status(201)
postHandler_200(st, nid, r) ==
    LET newProduct == ProductsModel(nid, r.body)
        saved == save(st, newProduct.doc, r.storeOk)
    IN  [nextId |-> newProduct.nextId] @@
        (IF saved.error # NoError THEN Forward(saved.store, saved.error)
         ELSE Send(saved.store, 200, [_id |-> saved.doc._id]))

\* productsRouter.post("/")
postHandler(st, nid, r) ==
    LET newProduct == ProductsModel(nid, r.body)
        saved == save(st, newProduct.doc, r.storeOk)
    IN  [nextId |-> newProduct.nextId] @@
        (IF saved.error # NoError THEN Forward(saved.store, saved.error)
         ELSE Send(saved.store, 201, [_id |-> saved.doc._id]))

\* productsRouter.get("/")
getAllHandler(st, r) ==
    LET product == find(st, r.storeOk)
    IN  IF product.error # NoError THEN Forward(product.store, product.error)
        ELSE Send(product.store, 200, product.doc)

\* mutant: the else is missing, the 404 is forwarded after the product was sent
getHandler_noElse(st, r) ==
    LET product == findById(st, r.params.id, r.storeOk)
    IN  IF product.error # NoError THEN Forward(product.store, product.error)
        ELSE [store |-> product.store,
              sent |-> IF product.found THEN <<Response(200, product.doc)>> ELSE <<>>,
              err |-> createHttpError(404, NotFoundMessage(r.params.id))]

\* productsRouter.get("/:id")
getHandler(st, r) ==
    LET product == findById(st, r.params.id, r.storeOk)
    IN  IF product.error # NoError THEN Forward(product.store, product.error)
        ELSE IF product.found THEN Send(product.store, 200, product.doc)
        ELSE Forward(product.store, createHttpError(404, NotFoundMessage(r.params.id)))

\* { new: true, runValidators: true }
PutOptions == [new |-> TRUE, runValidators |-> TRUE]

\* mutant: { runValidators: true } only, the answer is the document as it was
putHandler_notNew(st, r) ==
    LET updatedProduct ==
            findByIdAndUpdate(st, r.params.id, r.body,
                              [PutOptions EXCEPT !.new = FALSE], r.storeOk)
    IN  IF updatedProduct.error # NoError
        THEN Forward(updatedProduct.store, updatedProduct.error)
        ELSE IF updatedProduct.found THEN Send(updatedProduct.store, 200, updatedProduct.doc)
        ELSE Forward(updatedProduct.store,
                     createHttpError(404, NotFoundMessage(r.params.id)))

\* mutant: { new: true } only, the update validators do not run
putHandler_noValidators(st, r) ==
    LET updatedProduct ==
            findByIdAndUpdate(st, r.params.id, r.body,
                              [PutOptions EXCEPT !.runValidators = FALSE], r.storeOk)
    IN  IF updatedProduct.error # NoError
        THEN Forward(updatedProduct.store, updatedProduct.error)
        ELSE IF updatedProduct.found THEN Send(updatedProduct.store, 200, updatedProduct.doc)
        ELSE Forward(updatedProduct.store,
                     createHttpError(404, NotFoundMessage(r.params.id)))

\* productsRouter.put("/:id")
putHandler(st, r) ==
    LET updatedProduct == findByIdAndUpdate(st, r.params.id, r.body, PutOptions, r.storeOk)
    IN  IF updatedProduct.error # NoError
        THEN Forward(updatedProduct.store, updatedProduct.error)
        ELSE IF updatedProduct.found THEN Send(updatedProduct.store, 200, updatedProduct.doc)
        ELSE Forward(updatedProduct.store,
                     createHttpError(404, NotFoundMessage(r.params.id)))

\* findByIdAndUpdate(id) is called with neither an update nor options
NoUpdate == <<>>
DefaultOptions == [new |-> FALSE, runValidators |-> FALSE]

\* mutant: the answer is 204 whether or not a document was found
deleteHandler_always204(st, r) ==
    LET deletedProduct ==
            findByIdAndUpdate(st, r.params.id, NoUpdate, DefaultOptions, r.storeOk)
    IN  IF deletedProduct.error # NoError
        THEN Forward(deletedProduct.store, deletedProduct.error)
        ELSE Send(deletedProduct.store, 204, NoContent)

\* productsRouter.delete("/:id")
deleteHandler(st, r) ==
    LET deletedProduct ==
            findByIdAndUpdate(st, r.params.id, NoUpdate, DefaultOptions, r.storeOk)
    IN  IF deletedProduct.error # NoError
        THEN Forward(deletedProduct.store, deletedProduct.error)
        ELSE IF deletedProduct.found THEN Send(deletedProduct.store, 204, NoContent)
        ELSE Forward(deletedProduct.store,
                     createHttpError(404, NotFoundMessage(r.params.id)))

----------------------------------------------------------------------------
(* The state machine *)

\* mutant: the catch-all is mounted first
ErrorHandlers_genericFirst == <<"genericErrorHandler", "badRequestHandler", "notFoundHandler">>

\* server.use(badRequestHandler); server.use(notFoundHandler); server.use(genericErrorHandler)
ErrorHandlers == <<"badRequestHandler", "notFoundHandler", "genericErrorHandler">>

NoBefore == [store |-> <<>>, assigned |-> {}, deleted |-> {}]

Init ==
    /\ store = <<>>
    /\ nextId = 1
    /\ req = NoRequest
    /\ responses = <<>>
    /\ err = NoError
    /\ stage = 0
    /\ assigned = {}
    /\ deleted = {}
    /\ before = NoBefore

Idle == req = NoRequest /\ stage = 0

\* a handler ran on request r with outcome o
Served(r, o) ==
    /\ req' = r
    /\ store' = o.store
    /\ responses' = o.sent
    /\ err' = o.err
    /\ stage' = IF o.err # NoError THEN 1 ELSE 0
    /\ before' = [store |-> store, assigned |-> assigned, deleted |-> deleted]

Post ==
    /\ Idle
    /\ nextId <= MaxProducts
    /\ \E r \in Requests :
        /\ r.route = "POST /"
        /\ LET o == postHandler(store, nextId, r)
           IN  /\ Served(r, o)
               /\ nextId' = o.nextId
               /\ assigned' = assigned \cup {nextId}
    /\ UNCHANGED deleted

GetAll ==
    /\ Idle
    /\ \E r \in Requests :
        /\ r.route = "GET /"
        /\ Served(r, getAllHandler(store, r))
    /\ UNCHANGED <<nextId, assigned, deleted>>

Get ==
    /\ Idle
    /\ \E r \in Requests :
        /\ r.route = "GET /:id"
        /\ Served(r, getHandler(store, r))
    /\ UNCHANGED <<nextId, assigned, deleted>>

Put ==
    /\ Idle
    /\ \E r \in Requests :
        /\ r.route = "PUT /:id"
        /\ Served(r, putHandler(store, r))
    /\ UNCHANGED <<nextId, assigned, deleted>>

Delete ==
    /\ Idle
    /\ \E r \in Requests :
        /\ r.route = "DELETE /:id"
        /\ LET o == deleteHandler(store, r)
           IN  /\ Served(r, o)
               /\ deleted' = IF \E k \in 1..Len(o.sent) : o.sent[k].status = 204
                             THEN deleted \cup {r.params.id} ELSE deleted
    /\ UNCHANGED <<nextId, assigned>>

\* an error handler either answers, which ends the chain, or calls next(err)
Answer(status, message) ==
    /\ responses' = Append(responses, Response(status, [message |-> message]))
    /\ stage' = 0
    /\ UNCHANGED <<store, nextId, req, err, assigned, deleted, before>>

PassOn ==
    /\ stage' = stage + 1
    /\ UNCHANGED <<store, nextId, req, responses, err, assigned, deleted, before>>

Runs(handler) == stage \in 1..Len(ErrorHandlers) /\ ErrorHandlers[stage] = handler

\* the error shapes the first two stages recognise
ValidationShape(e) == e.status = 400 \/ e.name = "ValidationError"
NotFoundShape(e) == e.status = 404 \/ e.name = "CastError"

\* validation-shape errors -> 400
badRequestHandler ==
    /\ Runs("badRequestHandler")
    /\ IF ValidationShape(err)
       THEN Answer(400, err.message)
       ELSE PassOn

\* not-found signals and malformed-identifier errors -> 404
notFoundHandler ==
    /\ Runs("notFoundHandler")
    /\ IF NotFoundShape(err)
       THEN Answer(404, IF err.status = 404 THEN err.message
                        ELSE NotFoundMessage(req.params.id))
       ELSE PassOn

\* everything else -> 500
genericErrorHandler ==
    /\ Runs("genericErrorHandler")
    /\ Answer(500, <<"Generic error">>)

\* the response is out: the request is over and the server waits for the next
Done ==
    /\ req # NoRequest
    /\ stage = 0
    /\ req' = NoRequest
    /\ responses' = <<>>
    /\ err' = NoError
    /\ before' = NoBefore
    /\ UNCHANGED <<store, nextId, stage, assigned, deleted>>

Next ==
    \/ Post
    \/ GetAll
    \/ Get
    \/ Put
    \/ Delete
    \/ badRequestHandler
    \/ notFoundHandler
    \/ genericErrorHandler
    \/ Done

Spec == Init /\ [][Next]_vars

----------------------------------------------------------------------------
(* Properties.  A state is Answered when the request in req has gone through *)
(* its handler and, if it forwarded an error, through the error handlers.    *)

Answered == req # NoRequest /\ stage = 0

IdRoutes == {"GET /:id", "PUT /:id", "DELETE /:id"}

ValidPayload(body) == MissingPaths(body) = {} /\ InvalidPaths(body) = {}

GetRequest(id) ==
    [route |-> "GET /:id", params |-> [id |-> id], body |-> EmptyBody, storeOk |-> TRUE]

ListRequest == [route |-> "GET /", params |-> NoParams, body |-> EmptyBody, storeOk |-> TRUE]

NotFound(id) == Response(404, [message |-> NotFoundMessage(id)])

\* C1: a DELETE on a stored id answers 204 and removes the record: a GET of the
\* id right after it answers 404 and the id is no longer in the listing.
C1_DeleteRemovesRecord ==
    (Answered /\ req.route = "DELETE /:id" /\ req.storeOk
        /\ req.params.id \in StoredIds(before.store))
    => /\ Len(responses) = 1
       /\ responses[1].status = 204
       /\ req.params.id \notin StoredIds(store)
       /\ getHandler(store, GetRequest(req.params.id)).err.status = 404
       /\ \A i \in 1..Len(store) :
            getAllHandler(store, ListRequest).sent[1].body.products[i]._id # req.params.id

\* C2: a POST of a valid payload answers 201 with the _id of a record that was
\* not stored before, and a GET of that _id answers 200 with a product that has
\* this _id and the payload's name, description and price; a GET of any stored
\* id answers 200 with the product of that id.
C2_PostThenGet ==
    /\ (Answered /\ req.route = "POST /" /\ req.storeOk /\ ValidPayload(req.body))
       => /\ Len(responses) = 1
          /\ responses[1].status = 201
          /\ IsObjectId(responses[1].body._id)
          /\ responses[1].body._id \notin StoredIds(before.store)
          /\ LET id == responses[1].body._id
                 got == getHandler(store, GetRequest(id))
             IN  /\ got.err = NoError
                 /\ Len(got.sent) = 1
                 /\ got.sent[1].status = 200
                 /\ got.sent[1].body._id = id
                 /\ \A f \in Fields : got.sent[1].body[f] = req.body[f]
    /\ (Answered /\ req.route = "GET /:id" /\ req.storeOk
            /\ req.params.id \in StoredIds(before.store))
       => /\ Len(responses) = 1
          /\ responses[1].status = 200
          /\ responses[1].body._id = req.params.id
          /\ \E i \in 1..Len(store) : store[i] = responses[1].body

C2_Witness ==
    /\ Answered /\ req.route = "POST /"
    /\ Len(responses) = 1 /\ responses[1].status = 201
    /\ Len(store) = 2
    /\ store[2].name = "Kelek"

\* C3 as stated: on a well-formed id that was never assigned, GET, PUT and DELETE
\* each answer 404 with the message "Product with id {id} not found!" and leave
\* the store as it was.
C3_NeverAssignedIs404 ==
    (Answered /\ req.route \in IdRoutes /\ req.storeOk
        /\ IsObjectId(req.params.id) /\ req.params.id \notin assigned)
    => /\ responses = <<NotFound(req.params.id)>>
       /\ store = before.store

\* C3 amended: the same, for GET, for DELETE, and for a PUT whose body passes the
\* update validators (a PUT whose body does not is answered 400).
C3_NeverAssignedIs404_ValidBody ==
    /\ (Answered /\ req.route \in IdRoutes /\ req.storeOk
            /\ IsObjectId(req.params.id) /\ req.params.id \notin assigned
            /\ (req.route = "PUT /:id" => InvalidPaths(req.body) = {}))
       => /\ responses = <<NotFound(req.params.id)>>
          /\ store = before.store
    /\ (Answered /\ req.route = "PUT /:id"
            /\ IsObjectId(req.params.id) /\ req.params.id \notin assigned
            /\ InvalidPaths(req.body) # {})
       => /\ Len(responses) = 1
          /\ responses[1].status = 400
          /\ store = before.store

C3_Witness ==
    /\ Answered /\ req.route = "DELETE /:id" /\ req.storeOk
    /\ req.params.id = NeverAssignedId
    /\ Len(store) = 1
    /\ responses = <<NotFound(NeverAssignedId)>>

\* C4: a PUT on a stored id whose body passes validation answers 200 with the
\* updated product: every supplied field has the supplied value, every other
\* field and the _id are as before; the stored record is this product and no
\* other record changes.
C4_PartialUpdate ==
    (Answered /\ req.route = "PUT /:id" /\ req.storeOk
        /\ req.params.id \in StoredIds(before.store) /\ InvalidPaths(req.body) = {})
    => LET i == IndexOf(before.store, req.params.id)
           old == before.store[i]
       IN  /\ Len(responses) = 1
           /\ responses[1].status = 200
           /\ responses[1].body._id = req.params.id
           /\ \A f \in DOMAIN req.body : responses[1].body[f] = req.body[f]
           /\ \A f \in Fields \ DOMAIN req.body : responses[1].body[f] = old[f]
           /\ DOMAIN responses[1].body = DOMAIN old
           /\ Len(store) = Len(before.store)
           /\ store[i] = responses[1].body
           /\ \A j \in 1..Len(store) : j # i => store[j] = before.store[j]

C4_Witness ==
    /\ Answered /\ req.route = "PUT /:id"
    /\ DOMAIN req.body = {"name"}
    /\ Len(store) = 2
    /\ req.params.id = store[1]._id
    /\ Len(responses) = 1 /\ responses[1].status = 200
    /\ responses[1].body.name = "Kelek"
    /\ before.store[1].name = "iPhone SE"

\* C5: a POST whose payload lacks a required field or holds an invalid one
\* answers 400 and leaves the store, and so the listing, as it was.
C5_InvalidPostRejected ==
    (Answered /\ req.route = "POST /" /\ ~ValidPayload(req.body))
    => /\ Len(responses) = 1
       /\ responses[1].status = 400
       /\ store = before.store
       /\ getAllHandler(store, ListRequest) = getAllHandler(before.store, ListRequest)

C5_Witness ==
    /\ Answered /\ req.route = "POST /"
    /\ "name" \notin DOMAIN req.body
    /\ {"description", "price"} \subseteq DOMAIN req.body
    /\ Len(store) = 1
    /\ Len(responses) = 1 /\ responses[1].status = 400

\* C6: once a DELETE of an id was answered 204, every later DELETE of that id
\* is answered 404 and never 204.
C6_RepeatedDeleteIs404 ==
    (Answered /\ req.route = "DELETE /:id" /\ req.params.id \in before.deleted)
    => /\ Len(responses) = 1
       /\ responses[1].status # 204
       /\ req.storeOk => responses[1].status = 404

\* C7: every stored record has a valid name, description and price, and a PUT on
\* a stored id whose body holds an invalid value for one of them answers 400 and
\* leaves the store as it was.
C7_RequiredFieldsKept ==
    /\ \A i \in 1..Len(store) :
        /\ Fields \subseteq DOMAIN store[i]
        /\ \A f \in Fields : ValidField(f, store[i][f])
    /\ (Answered /\ req.route = "PUT /:id"
            /\ req.params.id \in StoredIds(before.store) /\ InvalidPaths(req.body) # {})
       => /\ Len(responses) = 1
          /\ responses[1].status = 400
          /\ store = before.store

C7_Witness ==
    /\ Answered /\ req.route = "PUT /:id"
    /\ req.params.id \in StoredIds(before.store)
    /\ "name" \in DOMAIN req.body /\ req.body.name = ""
    /\ Len(responses) = 1 /\ responses[1].status = 400

\* C8: GET, PUT and DELETE with an id that is not a well-formed identifier answer
\* 404 and leave the store as it was.
C8_MalformedIdIs404 ==
    (Answered /\ req.route \in IdRoutes /\ ~IsObjectId(req.params.id))
    => /\ Len(responses) = 1
       /\ responses[1].status = 404
       /\ store = before.store

C8_Witness ==
    /\ Answered /\ req.route = "PUT /:id"
    /\ req.params.id = MalformedId
    /\ Len(store) = 1
    /\ Len(responses) = 1 /\ responses[1].status = 404

\* C9: a request never has more than one response, and none while an error is in
\* flight; once it is through it has exactly one.  A forwarded error reaches the
\* second stage only if the first does not recognise it and the third only if
\* neither does; the answer is the one of the first stage that recognises the
\* error, 500 with a message when none of the first two does.
C9_OneResponseFirstMatchingStage ==
    /\ Len(responses) <= 1
    /\ stage \in 0..3
    /\ stage > 0 => responses = <<>> /\ err # NoError
    /\ stage >= 2 => ~ValidationShape(err)
    /\ stage >= 3 => ~NotFoundShape(err)
    /\ Answered => Len(responses) = 1
    /\ (Answered /\ err = NoError) => responses[1].status \in {200, 201, 204}
    /\ (Answered /\ err # NoError)
       => /\ responses[1].status =
                IF ValidationShape(err) THEN 400
                ELSE IF NotFoundShape(err) THEN 404 ELSE 500
          /\ DOMAIN responses[1].body = {"message"}
          /\ responses[1].body.message # <<>>

C9_Witness ==
    /\ Answered /\ req.route = "GET /:id"
    /\ err = StoreError
    /\ responses = <<Response(500, [message |-> <<"Generic error">>])>>

\* C10: the stored _ids are pairwise distinct; a POST answered 201 added one
\* record, whose _id was never assigned before; a PUT leaves the _id of every
\* record as it was.
C10_IdsUniqueAndImmutable ==
    /\ \A i, j \in 1..Len(store) : i # j => store[i]._id # store[j]._id
    /\ (Answered /\ req.route = "POST /" /\ Len(responses) = 1
            /\ responses[1].status = 201)
       => /\ responses[1].body._id \notin before.assigned
          /\ Len(store) = Len(before.store) + 1
          /\ store[Len(store)]._id = responses[1].body._id
          /\ \A i \in 1..Len(before.store) : store[i] = before.store[i]
    /\ (Answered /\ req.route = "PUT /:id")
       => /\ Len(store) = Len(before.store)
          /\ \A i \in 1..Len(store) : store[i]._id = before.store[i]._id

C10_Witness ==
    /\ Answered /\ req.route = "POST /"
    /\ Len(responses) = 1 /\ responses[1].status = 201
    /\ Len(store) = 2
    /\ \A f \in Fields : store[1][f] = store[2][f]
    /\ store[1]._id # store[2]._id

====
